---- MODULE Spec2Model ----
(***************************************************************************)
(* Live event fan-out of the chat router (src/src/routers/chat.py):        *)
(* ConnectionManager (the session registry), chat_events.event_generator   *)
(* (the stream handler) and send_message (the orchestrator).               *)
(*                                                                         *)
(* Scheduling: one asyncio event loop.  ConnectionManager.lock is never    *)
(* held across a suspension point (no await inside a critical section),    *)
(* so connect, disconnect, broadcast and get_connection_count are atomic.  *)
(* The stream handler is suspended only at `await request.is_disconnected`,*)
(* at `await asyncio.wait_for(queue.get(), ...)` and at its two yields:    *)
(* one handler action runs from one of these points to the next.           *)
(***************************************************************************)
EXTENDS Integers, Sequences, FiniteSets, TLC

\* ---------------------------------------------------------------- bounds
MaxBroadcasts == 2
MaxFrames == 3
MaxTime == 50
TickStep == 10
MaxOverflow == 2
MaxSends == 2
MaxStreamedSends == 1

\* ------------------------------------------------------ program constants
QueueMaxsize == 100
HeartbeatIdle == 25
WaitCeiling == 30
MaxChatMessages == 100
MaxRetries == 3
RetryDelayTenths == 5

Sessions == {"s1", "s2"}
QueueIds == {1, 2}

VARIABLES
    active_connections, \* ConnectionManager.active_connections: session -> list of queues
    queues,             \* contents of every asyncio.Queue created by connect
    nextQueue,          \* number of queues created so far (queue identity)
    hpc,                \* per stream: where its event_generator is suspended
    hsid,               \* per stream: session_id of the request
    last_activity,      \* per stream: local last_activity of event_generator
    deadline,           \* per stream: when the pending wait_for times out
    frames,             \* per stream: frames yielded so far
    emitted_at,         \* per stream: clock at its last frame (at its start before the first)
    disconnects,        \* per stream: calls of connection_manager.disconnect made by it
    now,                \* the clock read by time.time() and datetime.utcnow()
    nextUuid,           \* number of uuid4 values drawn by send_message so far
    bcast,              \* per session: number of broadcast calls made so far
    lastCount,          \* the last value returned by get_connection_count
    store,              \* the Session Store: session id -> stored record
    spc,                \* send_message: where the request in progress stands
    ssid,               \* send_message: str(chat_session.id)
    cs,                 \* send_message: chat_session.messages, the in-memory list
    ai,                 \* send_message: the ai_message dict (also the last entry of cs)
    resp,               \* what the last send_message returned or raised
    sends,              \* number of send_message requests accepted so far
    saveFails,          \* send_message: chat_session.save() calls that raised in its last persistence step
    persist,            \* _save_session_messages: the call in progress and its outcome
    estream,            \* chat_events: the stream answered by an error generator
    db,                 \* the stores: chat sessions (title, updated), notebooks, relations
    rres,               \* get_or_create_chat_session: what the last call returned or raised
    dres                \* delete_session: its last call and the status of the response

vars == <<active_connections, queues, nextQueue, hpc, hsid, last_activity,
          deadline, frames, emitted_at, disconnects, now, nextUuid, bcast, lastCount,
          store, spc, ssid, cs, ai, resp, sends,
          saveFails, persist, estream, db, rres, dres>>

handlerLocals == <<last_activity, deadline, frames, emitted_at>>
counters == <<nextUuid, bcast, lastCount>>
registry == <<active_connections, queues, nextQueue, bcast, lastCount>>
handlers == <<hpc, hsid, handlerLocals, disconnects>>
request == <<store, spc, ssid, cs, ai, resp, sends, saveFails>>
aux == <<persist, estream, db, rres, dres>>

\* ------------------------------------------------------------ sequences
Range(s) == {s[i] : i \in 1..Len(s)}

Min(a, b) == IF a <= b THEN a ELSE b

\* list.remove(x): drops the first occurrence of x.
RECURSIVE RemoveFirst(_, _)
RemoveFirst(s, x) ==
    IF s = <<>> THEN <<>>
    ELSE IF Head(s) = x THEN Tail(s)
    ELSE <<Head(s)>> \o RemoveFirst(Tail(s), x)

RECURSIVE RemoveAll(_, _)
RemoveAll(s, xs) ==
    IF s = <<>> THEN <<>>
    ELSE IF Head(s) \in xs THEN RemoveAll(Tail(s), xs)
    ELSE <<Head(s)>> \o RemoveAll(Tail(s), xs)

Restrict(f, D) == [x \in D |-> f[x]]

\* -------------------------------------------------- ConnectionManager
\* connect that lists the queue under every session id of the registry as well.
ConnectEverywhere(ac, s, q) ==
    [t \in DOMAIN ac \cup {s} |-> IF t \in DOMAIN ac THEN Append(ac[t], q) ELSE <<q>>]

\* connect, the registry part: active_connections[session_id].append(queue)
\* on a defaultdict(list).
Connect(ac, s, q) ==
    IF s \in DOMAIN ac THEN [ac EXCEPT ![s] = Append(@, q)]
    ELSE ac @@ (s :> <<q>>)

\* disconnect: remove the queue if listed, then delete the key if its list is empty.
Disconnect(ac, s, q) ==
    IF s \notin DOMAIN ac THEN ac
    ELSE LET l == IF q \in Range(ac[s]) THEN RemoveFirst(ac[s], q) ELSE ac[s]
         IN IF l = <<>> THEN Restrict(ac, DOMAIN ac \ {s})
            ELSE [ac EXCEPT ![s] = l]

\* put_nowait without the maxsize check.
PutNowaitUnbounded(content, message) == Append(content, message)

\* queue.put_nowait(message) on a queue holding `content`: QueueFull leaves the
\* queue as it is (the except clause only logs).
PutNowait(content, message) ==
    IF Len(content) >= QueueMaxsize THEN content
    ELSE Append(content, message)

\* broadcast that puts the message on the queues of every session.
BroadcastQueuesAnySession(qs, ac, s, message, bad) ==
    [q \in DOMAIN qs |->
        IF (\E t \in DOMAIN ac : q \in Range(ac[t])) /\ q \notin bad
        THEN PutNowait(qs[q], message) ELSE qs[q]]

\* broadcast, the queues: every queue listed under session_id gets put_nowait,
\* except those in `bad`, whose put_nowait raises something else than QueueFull.
BroadcastQueues(qs, ac, s, message, bad) ==
    IF s \notin DOMAIN ac THEN qs
    ELSE [q \in DOMAIN qs |->
            IF q \in Range(ac[s]) /\ q \notin bad
            THEN PutNowait(qs[q], message) ELSE qs[q]]

\* broadcast, the registry: the dead queues are removed from the session's list;
\* the key stays.
BroadcastConns(ac, s, bad) ==
    IF s \notin DOMAIN ac THEN ac
    ELSE [ac EXCEPT ![s] = RemoveAll(@, bad)]

\* get_connection_count: len(active_connections.get(session_id, []))
GetConnectionCount(ac, s) ==
    IF s \in DOMAIN ac THEN Len(ac[s]) ELSE 0

\* ------------------------------------------------------------ stream handler
\* uuid4 values are distinct: those drawn by send_message are numbered by
\* nextUuid, those drawn by a stream by the stream and its frame.
Uuid(n) == [src |-> "gen", n |-> n]
StreamUuid(q, k) == [src |-> "stream", n |-> q * (MaxFrames + 2) + k]

\* message_data of event_generator: message.get(key, default) for each key.
MessageData(message, uuid, t) ==
    [type      |-> "message",
     id        |-> IF "id" \in DOMAIN message THEN message.id ELSE uuid,
     role      |-> IF "role" \in DOMAIN message THEN message.role ELSE "assistant",
     content   |-> IF "content" \in DOMAIN message THEN message.content ELSE "",
     timestamp |-> IF "timestamp" \in DOMAIN message THEN message.timestamp ELSE t]

\* json.dumps(message_data) raises TypeError on content that is a list of
\* content-block objects.
JsonSerializable(data) == data.content # "<blocks>"

Heartbeat == [type |-> "heartbeat"]

\* The finally clause of event_generator.
Cleanup(q) ==
    /\ active_connections' = Disconnect(active_connections, hsid[q], q)
    /\ disconnects' = [disconnects EXCEPT ![q] = @ + 1]
    /\ hpc' = [hpc EXCEPT ![q] = "closed"]

\* -------------------------------------------------------------- actions
\* send_message never suspends (its awaits are the lock-free broadcast calls and
\* chat_graph.invoke is a plain call): while a request is in it, no other task
\* of the loop runs.
LoopFree == spc = "idle"

\* chat_events past its Accept and session checks: connect, then the
\* StreamingResponse is returned with the generator not yet started.
ChatEvents(s, ids) ==
    /\ UNCHANGED aux
    /\ LoopFree
    /\ s \in DOMAIN store
    /\ nextQueue + 1 \in ids
    /\ LET q == nextQueue + 1 IN
        /\ nextQueue' = q
        /\ active_connections' = Connect(active_connections, s, q)
        /\ hpc' = [hpc EXCEPT ![q] = "created"]
        /\ hsid' = [hsid EXCEPT ![q] = s]
    /\ UNCHANGED <<queues, handlerLocals, disconnects, now, counters, request>>

\* The response is dropped before the generator runs its first step: an
\* unstarted async generator has no finally clause to run.
HandlerAbandon(q) ==
    /\ UNCHANGED aux
    /\ LoopFree
    /\ hpc[q] = "created"
    /\ hpc' = [hpc EXCEPT ![q] = "abandoned"]
    /\ UNCHANGED <<active_connections, queues, nextQueue, hsid, handlerLocals,
                   disconnects, now, counters, request>>

\* First step: last_activity = time.time(), up to await request.is_disconnected().
HandlerStart(q) ==
    /\ UNCHANGED aux
    /\ LoopFree
    /\ hpc[q] = "created"
    /\ last_activity' = [last_activity EXCEPT ![q] = now]
    /\ emitted_at' = [emitted_at EXCEPT ![q] = now]
    /\ hpc' = [hpc EXCEPT ![q] = "poll"]
    /\ UNCHANGED <<active_connections, queues, nextQueue, hsid, deadline, frames,
                   disconnects, now, counters, request>>

\* is_disconnected() returns: break, or heartbeat, or start the wait on the queue.
HandlerPoll(q, gone) ==
    /\ UNCHANGED aux
    /\ LoopFree
    /\ hpc[q] = "poll"
    /\ IF gone
       THEN /\ Cleanup(q)
            /\ UNCHANGED <<deadline, frames, emitted_at>>
       ELSE LET idle_time == now - last_activity[q] IN
            IF idle_time >= HeartbeatIdle
            THEN /\ Len(frames[q]) < MaxFrames
                 /\ frames' = [frames EXCEPT ![q] = Append(@, Heartbeat)]
                 /\ emitted_at' = [emitted_at EXCEPT ![q] = now]
                 /\ hpc' = [hpc EXCEPT ![q] = "yield"]
                 /\ UNCHANGED <<active_connections, disconnects, deadline>>
            ELSE /\ deadline' = [deadline EXCEPT ![q] =
                                    now + Min(WaitCeiling, HeartbeatIdle - idle_time)]
                 /\ hpc' = [hpc EXCEPT ![q] = "wait"]
                 /\ UNCHANGED <<active_connections, disconnects, frames, emitted_at>>
    /\ UNCHANGED <<queues, nextQueue, hsid, last_activity, now, counters, request>>

\* queue.get() returns: build message_data and yield the frame; a json.dumps
\* error ends the stream through `except Exception` and the finally clause.
HandlerGet(q) ==
    /\ UNCHANGED aux
    /\ LoopFree
    /\ hpc[q] = "wait"
    /\ queues[q] # <<>>
    /\ Len(frames[q]) < MaxFrames
    /\ LET message == Head(queues[q])
           data == MessageData(message, StreamUuid(q, Len(frames[q])), now)
       IN /\ queues' = [queues EXCEPT ![q] = Tail(@)]
          /\ IF JsonSerializable(data)
             THEN /\ frames' = [frames EXCEPT ![q] = Append(@, data)]
                  /\ emitted_at' = [emitted_at EXCEPT ![q] = now]
                  /\ hpc' = [hpc EXCEPT ![q] = "yield"]
                  /\ UNCHANGED <<active_connections, disconnects>>
             ELSE /\ Cleanup(q)
                  /\ UNCHANGED <<frames, emitted_at>>
    /\ UNCHANGED <<nextQueue, hsid, last_activity, deadline, now, counters, request>>

\* wait_for raises TimeoutError: the clock has reached the deadline of the
\* wait (the earliest pending one), and the loop continues.
HandlerTimeout(q) ==
    /\ UNCHANGED aux
    /\ LoopFree
    /\ hpc[q] = "wait"
    /\ queues[q] = <<>>
    /\ deadline[q] <= MaxTime
    /\ \A r \in QueueIds : hpc[r] = "wait" => deadline[q] <= deadline[r]
    /\ now' = IF now >= deadline[q] THEN now ELSE deadline[q]
    /\ hpc' = [hpc EXCEPT ![q] = "poll"]
    /\ UNCHANGED <<active_connections, queues, nextQueue, hsid, handlerLocals,
                   disconnects, counters, request>>

\* The consumer asks for the next chunk: last_activity = time.time(), loop.
HandlerResume(q) ==
    /\ UNCHANGED aux
    /\ LoopFree
    /\ hpc[q] = "yield"
    /\ last_activity' = [last_activity EXCEPT ![q] = now]
    /\ hpc' = [hpc EXCEPT ![q] = "poll"]
    /\ UNCHANGED <<active_connections, queues, nextQueue, hsid, deadline, frames,
                   emitted_at, disconnects, now, counters, request>>

\* The stream ends while the generator is suspended: CancelledError at an
\* await, GeneratorExit (or an error) at a yield.  Every one of them reaches
\* the finally clause.
HandlerCancel(q) ==
    /\ UNCHANGED aux
    /\ LoopFree
    /\ hpc[q] \in {"poll", "wait", "yield"}
    /\ Cleanup(q)
    /\ UNCHANGED <<queues, nextQueue, hsid, handlerLocals, now, counters, request>>

\* An event as a caller of broadcast builds it for streaming clients.
ApiMessage(s, n, t) ==
    [id        |-> [src |-> s, n |-> n],
     role      |-> "assistant",
     content   |-> "text",
     timestamp |-> t]

\* connection_manager.broadcast(session_id, message), called `limit` times at most.
BroadcastCall(s, bad, limit) ==
    /\ UNCHANGED aux
    /\ LoopFree
    /\ bcast[s] < limit
    /\ LET message == ApiMessage(s, bcast[s] + 1, now)
       IN /\ queues' = BroadcastQueues(queues, active_connections, s, message, bad)
          /\ active_connections' = BroadcastConns(active_connections, s, bad)
    /\ bcast' = [bcast EXCEPT ![s] = @ + 1]
    /\ UNCHANGED <<nextQueue, handlers, now, nextUuid, lastCount, request>>

\* connection_manager.get_connection_count(session_id)
CountCall(s) ==
    /\ UNCHANGED aux
    /\ LoopFree
    /\ lastCount' = GetConnectionCount(active_connections, s)
    /\ UNCHANGED <<active_connections, queues, nextQueue, hpc, hsid, handlerLocals,
                   disconnects, now, nextUuid, bcast, request>>

\* Time passes while the loop is idle, short of the deadline of any pending
\* wait: a handler whose queue has an event is resumed at once, and a wait
\* that runs out ends in HandlerTimeout.
Tick(d) ==
    /\ UNCHANGED aux
    /\ LoopFree
    /\ now + d <= MaxTime
    /\ \A q \in QueueIds :
          hpc[q] = "wait" => (queues[q] = <<>> /\ now + d < deadline[q])
    /\ now' = now + d
    /\ UNCHANGED <<active_connections, queues, nextQueue, hpc, hsid, handlerLocals,
                   disconnects, counters, request>>

BadSets == {{}} \cup {{q} : q \in QueueIds}

\* ------------------------------------------------------------ send_message
\* A message dict of send_message: id, role, content, timestamp and
\* metadata["error"] ("<unset>" while metadata is {}).
Msg(id, role, content, t, err) ==
    [id |-> id, role |-> role, content |-> content, timestamp |-> t, error |-> err]

NoId == [src |-> "none", n |-> 0]
ClientIds == {[src |-> "client", n |-> 1]}
ErrId(n) == [src |-> "err", n |-> n]

NoMsg == Msg(NoId, "none", "", 0, "<unset>")
NoResp == [status |-> "none", message |-> NoMsg]

\* str.strip() on the request texts of the model.
Strip(text) == IF text = " " THEN "" ELSE text

\* chat_session.save(): the stored record is replaced as a whole.
Save(st, s, messages) == [st EXCEPT ![s] = [@ EXCEPT !.messages = messages]]

SetLast(l, m) == [l EXCEPT ![Len(l)] = m]

\* The final ai_message always appended.
PutFinalAppend(l, m) == Append(l, m)

\* Lines 645-653: the final ai_message goes over the last entry when that has
\* its id, and is appended otherwise.
PutFinal(l, m) ==
    IF l # <<>> /\ l[Len(l)].id = m.id THEN SetLast(l, m) ELSE Append(l, m)

\* Queued events hold the ai_message dict itself: a later assignment to the
\* dict shows in them.
Alias(qs, m) ==
    [q \in DOMAIN qs |->
        [i \in 1..Len(qs[q]) |->
            IF "message" \in DOMAIN qs[q][i] /\ qs[q][i].message.id = m.id
            THEN [qs[q][i] EXCEPT !.message = m] ELSE qs[q][i]]]

FlatEvent(m, content, t) ==
    [id |-> m.id, role |-> m.role, content |-> content, timestamp |-> t]

\* await connection_manager.broadcast(session_id=..., message=...)
Broadcast(qs, s, message, bad) ==
    /\ queues' = BroadcastQueues(qs, active_connections, s, message, bad)
    /\ active_connections' = BroadcastConns(active_connections, s, bad)
    /\ bcast' = [bcast EXCEPT ![s] = @ + 1]

\* Lines 479-533: validation, the session, the user message, the first save.
SendBegin(s, mid, text, ok, limit) ==
    /\ UNCHANGED aux
    /\ saveFails' = IF Strip(text) # "" /\ ~ok THEN 1 ELSE 0
    /\ spc = "idle"
    /\ sends < limit
    /\ s \in DOMAIN store
    /\ IF Strip(text) = ""
       THEN /\ resp' = [status |-> "400", message |-> NoMsg]
            /\ UNCHANGED <<store, spc, ssid, cs, ai, sends, nextUuid>>
       ELSE LET user_message ==
                    Msg(IF mid = NoId THEN Uuid(nextUuid + 1) ELSE mid,
                        "user", Strip(text), now, "<unset>")
                messages == Append(store[s].messages, user_message)
            IN /\ nextUuid' = IF mid = NoId THEN nextUuid + 1 ELSE nextUuid
               /\ sends' = sends + 1
               /\ ai' = NoMsg
               /\ IF ok
                  THEN /\ store' = Save(store, s, messages)
                       /\ spc' = "user_saved"
                       /\ ssid' = s
                       /\ cs' = messages
                       /\ resp' = NoResp
                  ELSE /\ resp' = [status |-> "500", message |-> NoMsg]
                       /\ UNCHANGED <<store, spc, ssid, cs>>
    /\ UNCHANGED <<registry, handlers, now>>

\* Lines 535-544: the user message goes to the streaming clients.
SendBroadcastUser(bad) ==
    /\ UNCHANGED aux
    /\ UNCHANGED saveFails
    /\ spc = "user_saved"
    /\ LET user_message == cs[Len(cs)]
       IN Broadcast(queues, ssid,
                    FlatEvent(user_message, user_message.content,
                              user_message.timestamp), bad)
    /\ spc' = "user_sent"
    /\ UNCHANGED <<nextQueue, lastCount, handlers, now, nextUuid,
                   store, ssid, cs, ai, resp, sends>>

\* The placeholder step without its save.
SendPlaceholderUnsaved(ok) ==
    /\ UNCHANGED aux
    /\ saveFails' = 0
    /\ spc = "user_sent"
    /\ LET ai_message == Msg(Uuid(nextUuid + 1), "assistant", "", now, "<unset>")
       IN /\ ai' = ai_message
          /\ cs' = Append(cs, ai_message)
          /\ nextUuid' = nextUuid + 1
          /\ store' = store /\ spc' = "generating"
    /\ UNCHANGED <<registry, handlers, now, ssid, resp, sends>>

\* Lines 554-581: the empty ai_message is appended and the session saved.
SendPlaceholder(ok) ==
    /\ UNCHANGED aux
    /\ saveFails' = IF ok THEN 0 ELSE 1
    /\ spc = "user_sent"
    /\ LET ai_message == Msg(Uuid(nextUuid + 1), "assistant", "", now, "<unset>")
       IN /\ ai' = ai_message
          /\ cs' = Append(cs, ai_message)
          /\ nextUuid' = nextUuid + 1
          /\ IF ok
             THEN store' = Save(store, ssid, Append(cs, ai_message)) /\ spc' = "generating"
             ELSE store' = store /\ spc' = "outer_error"
    /\ UNCHANGED <<registry, handlers, now, ssid, resp, sends>>

\* Lines 549-552 and 591: chat_input["messages"] is the list object
\* chat_session.messages, not a copy: the engine is given the list as it is
\* when invoke is called.
ChatInput == cs

\* Lines 586-643: chat_graph.invoke returns after d, with a string ("text"), with
\* a list of content blocks ("blocks"), with nothing usable ("blank": no
\* message, no content attribute, blank content), or raises ("raise").
SendGenerate(outcome, d, bad) ==
    /\ UNCHANGED aux
    /\ UNCHANGED saveFails
    /\ spc = "generating"
    /\ now + d <= MaxTime
    /\ now' = now + d
    /\ CASE outcome = "text" ->
              LET m == [ai EXCEPT !.content = "reply"]
              IN /\ ai' = m
                 /\ cs' = SetLast(cs, m)
                 /\ Broadcast(queues, ssid, FlatEvent(m, "reply", m.timestamp), bad)
                 /\ spc' = "finalize"
         [] outcome = "blocks" ->
              LET m == [ai EXCEPT !.content = "joined"]
              IN /\ ai' = m
                 /\ cs' = SetLast(cs, m)
                 /\ Broadcast(queues, ssid, FlatEvent(m, "<blocks>", m.timestamp), bad)
                 /\ spc' = "finalize"
         [] outcome = "raise" ->
              LET m == [ai EXCEPT !.content = "error_msg", !.error = "str(e)"]
              IN /\ ai' = m
                 /\ cs' = SetLast(cs, m)
                 /\ Broadcast(queues, ssid, [event |-> "error", message |-> m], bad)
                 /\ spc' = "finalize"
         [] outcome = "blank" ->
              \* response_content is unbound at line 646: UnboundLocalError
              /\ bad = {}
              /\ spc' = "outer_error"
              /\ UNCHANGED <<ai, cs, queues, active_connections, bcast>>
    /\ UNCHANGED <<nextQueue, lastCount, handlers, nextUuid, store, ssid, resp, sends>>

\* Lines 645-657: content and timestamp of ai_message, its place in the list,
\* the final save.
SendFinalSave(ok) ==
    /\ UNCHANGED aux
    /\ saveFails' = IF ok THEN 0 ELSE 1
    /\ spc = "finalize"
    /\ LET m == [ai EXCEPT !.timestamp = now]
           messages == PutFinal(SetLast(cs, m), m)
       IN /\ ai' = m
          /\ cs' = messages
          /\ queues' = Alias(queues, m)
          /\ IF ok
             THEN store' = Save(store, ssid, messages) /\ spc' = "final_saved"
             ELSE store' = store /\ spc' = "outer_error"
    /\ UNCHANGED <<active_connections, nextQueue, bcast, lastCount, handlers, now,
                   nextUuid, ssid, resp, sends>>

\* Lines 659-682: the message_complete event and the JSON response.
SendBroadcastFinal(bad) ==
    /\ UNCHANGED aux
    /\ UNCHANGED saveFails
    /\ spc = "final_saved"
    /\ Broadcast(queues, ssid, [event |-> "message_complete", message |-> ai], bad)
    /\ resp' = [status |-> "200", message |-> ai]
    /\ spc' = "idle"
    /\ UNCHANGED <<nextQueue, lastCount, handlers, now, nextUuid, store, ssid, cs, ai, sends>>

\* Lines 684-701: the outer except clause appends an error message and saves;
\* a failing save leaves the handler through the last except clause.
SendOuterError(ok) ==
    /\ UNCHANGED aux
    /\ saveFails' = IF ok THEN 0 ELSE 1
    /\ spc = "outer_error"
    /\ LET error_message == Msg(ErrId(nextUuid + 1), "assistant", "error_msg", now, "True")
       IN /\ cs' = Append(cs, error_message)
          /\ nextUuid' = nextUuid + 1
          /\ IF ok
             THEN /\ store' = Save(store, ssid, Append(cs, error_message))
                  /\ spc' = "outer_saved"
                  /\ resp' = resp
             ELSE /\ store' = store
                  /\ spc' = "idle"
                  /\ resp' = [status |-> "500", message |-> NoMsg]
    /\ UNCHANGED <<registry, handlers, now, ssid, ai, sends>>

\* Lines 703-716: the error event, then HTTP 500.
SendBroadcastError(bad) ==
    /\ UNCHANGED aux
    /\ UNCHANGED saveFails
    /\ spc = "outer_saved"
    /\ Broadcast(queues, ssid,
                 [event |-> "error", message |-> cs[Len(cs)], error |-> "str(e)"], bad)
    /\ resp' = [status |-> "500", message |-> NoMsg]
    /\ spc' = "idle"
    /\ UNCHANGED <<nextQueue, lastCount, handlers, now, nextUuid, store, ssid, cs, ai, sends>>

\* ------------------------------------------------- _save_session_messages
\* The call in progress: its arguments, the attempt of `for attempt in
\* range(max_retries)` it is in, what it did so far (trace), the clock it read
\* when it first stamped the metadata of the messages, and what it returned.
NoPersist ==
    [pc |-> "idle", sid |-> "s1", messages |-> <<>>, attempt |-> 0,
     trace |-> <<>>, result |-> "none"]

\* An external call the function made, with the seconds (in tenths) it slept.
Tok(op, d) == [op |-> op, d |-> d]

\* A session id the Session Store does not have.
MissingSession == "s0"

\* time.sleep(retry_delay * (attempt + 1)), in tenths of a second.
BackoffUniform(attempt) == RetryDelayTenths

BackoffDelay(attempt) == RetryDelayTenths * (attempt + 1)

\* Lines 284-311: a message without content is skipped; of the others the role,
\* the content and the metadata are kept (id, type and timestamp are not; metadata gets the clock as timestamp).
ValidMessages(messages) ==
    LET Valid(m) == m.content # ""
        Kept(m) == Msg(NoId, m.role, m.content, now, m.error)
        kept == SelectSeq(messages, Valid)
    IN [i \in 1..Len(kept) |-> Kept(kept[i])]

\* Lines 327-331: session.messages[-max_messages:]
Truncate(messages) ==
    IF Len(messages) > MaxChatMessages
    THEN SubSeq(messages, Len(messages) - MaxChatMessages + 1, Len(messages))
    ELSE messages

\* The call, up to the loop: an empty list returns False at once.
PersistCall(s, messages) ==
    /\ LoopFree
    /\ persist.pc \in {"idle", "done"}
    /\ persist' = IF messages = <<>>
                  THEN [NoPersist EXCEPT !.pc = "done", !.sid = s, !.result = "False"]
                  ELSE [NoPersist EXCEPT !.pc = "attempt", !.sid = s,
                                         !.messages = messages]
    /\ UNCHANGED <<registry, handlers, now, nextUuid, request, estream, db, rres, dres>>

\* One pass of the loop body: DomainChatSession.get, the valid messages, the
\* rebuilt list, session.save(). `outcome` says what the store does: "get_raises",
\* "save_raises" or "ok".
PersistAttempt(outcome) ==
    /\ LoopFree
    /\ persist.pc = "attempt"
    /\ LET failed(tr) ==
               IF persist.attempt < MaxRetries - 1
               THEN [persist EXCEPT !.pc = "sleep", !.trace = tr]
               ELSE [persist EXCEPT !.pc = "done", !.trace = tr, !.result = "False"]
           returned(tr, r) == [persist EXCEPT !.pc = "done", !.trace = tr, !.result = r]
           got == Append(persist.trace, Tok("get", 0))
           valid_messages == ValidMessages(persist.messages)
       IN IF outcome = "get_raises"
          THEN persist' = failed(Append(persist.trace, Tok("get_raised", 0))) /\ store' = store
          ELSE IF persist.sid \notin DOMAIN store \/ valid_messages = <<>>
          THEN persist' = returned(got, "False") /\ store' = store
          ELSE IF outcome = "save_raises"
          THEN persist' = failed(Append(got, Tok("save_raised", 0))) /\ store' = store
          ELSE /\ persist' = returned(Append(got, Tok("save", 0)), "True")
               /\ store' = Save(store, persist.sid, Truncate(valid_messages))
    /\ UNCHANGED <<registry, handlers, now, nextUuid, spc, ssid, cs, ai, resp, sends,
                   saveFails, estream, db, rres, dres>>

\* time.sleep between a failed attempt and the next one.
PersistSleep ==
    /\ LoopFree
    /\ persist.pc = "sleep"
    /\ persist' = [persist EXCEPT !.pc = "attempt",
                                  !.attempt = @ + 1,
                                  !.trace = Append(@, Tok("sleep", BackoffDelay(persist.attempt)))]
    /\ UNCHANGED <<registry, handlers, now, nextUuid, request, estream, db, rres, dres>>

\* --------------------------------------- chat_events, session not validated
NoStream == [pc |-> "none", sid |-> MissingSession, gen |-> "none", frames |-> <<>>]

\* What the error generators yield when iterated to their end.
ErrorGeneratorTwice(gen) ==
    <<[type |-> "error", error |-> "Session not found"], Heartbeat>>

ErrorGenerator(gen) ==
    <<[type |-> "error",
       error |-> IF gen = "error_generator" THEN "Session not found"
                 ELSE "Error validating session"]>>

\* Lines 909-939: DomainChatSession.get returns nothing, or raises: the
\* response streams an error generator and connect is not reached.
ChatEventsInvalid(s, raised) ==
    /\ LoopFree
    /\ raised \/ s \notin DOMAIN store
    /\ estream.pc \in {"none", "closed", "rejected"}
    /\ estream' = [pc |-> "created", sid |-> s, frames |-> <<>>,
                   gen |-> IF raised THEN "validation_error_generator"
                           ELSE "error_generator"]
    /\ UNCHANGED <<registry, handlers, now, nextUuid, request, persist, db, rres, dres>>

\* The response iterates the error generator: its next frame, or its end.
ErrorStreamNext ==
    /\ LoopFree
    /\ estream.pc = "created"
    /\ LET all == ErrorGenerator(estream.gen)
           n == Len(estream.frames)
       IN estream' = IF n < Len(all)
                     THEN [estream EXCEPT !.frames = Append(@, all[n + 1])]
                     ELSE [estream EXCEPT !.pc = "closed"]
    /\ UNCHANGED <<registry, handlers, now, nextUuid, request, persist, db, rres, dres>>

\* Lines 899-905: the Accept header of the request; the test is
\* `"text/event-stream" not in accept_header`.
AcceptHeaders == {"text/event-stream", "text/event-stream, */*", "application/json", "*/*", ""}
AcceptsStream(accept_header) ==
    accept_header \in {"text/event-stream", "text/event-stream, */*"}

\* A rejection that comes after connect.
ChatEventsRejectedLate(s, accept_header) ==
    /\ LoopFree
    /\ ~AcceptsStream(accept_header)
    /\ estream.pc \in {"none", "closed", "rejected"}
    /\ estream' = [pc |-> "rejected", sid |-> s, frames |-> <<>>, gen |-> "HTTP_406"]
    /\ active_connections' = Connect(active_connections, s, nextQueue + 1)
    /\ UNCHANGED <<queues, nextQueue, bcast, lastCount, handlers, now, nextUuid, request,
                   persist, db, rres, dres>>

\* chat_events for a request that does not accept the stream format: HTTP 406
\* is raised before the session is looked up and before connect.
ChatEventsRejected(s, accept_header) ==
    /\ LoopFree
    /\ ~AcceptsStream(accept_header)
    /\ estream.pc \in {"none", "closed", "rejected"}
    /\ estream' = [pc |-> "rejected", sid |-> s, frames |-> <<>>, gen |-> "HTTP_406"]
    /\ UNCHANGED <<registry, handlers, now, nextUuid, request, persist, db, rres, dres>>

\* ------------------------------------------- get_or_create_chat_session
\* Identifiers are strings; those with a colon in them.
ColonIdentifiers ==
    {"cs:1", "cs:2", "cs:3", "cs:9", "notebook:1", "notebook:2", "notebook:9"}
HasColon(identifier) == identifier \in ColonIdentifiers

NoIdent == ""
NoResult ==
    [status |-> "none", session |-> NoIdent, notebook_id |-> NoIdent,
     identifier |-> NoIdent, name |-> NoIdent, fail |-> "none", before |-> {}]

TheNotebook == [id |-> "notebook:1", name |-> "nb"]
OtherNotebook == [id |-> "notebook:2", name |-> "nb2"]

SessionRecord(title, updated, notebook_id) ==
    [title |-> title, updated |-> updated, notebook_id |-> notebook_id]

\* The stores behind the requests on Sessions: one notebook, a record per session.
BaseDb ==
    [sessions  |-> [s \in Sessions |-> SessionRecord("Chat", 0, "notebook:1")],
     notebooks |-> {TheNotebook},
     relations |-> {<<s, "notebook:1">> : s \in Sessions},
     cache     |-> {}]

\* get_notebook_by_name_or_id finds a notebook: in the cache, by id when the
\* identifier has a colon, by name otherwise.
NotebookFor(d, identifier) ==
    {nb \in d.cache : nb.key = identifier}
    \cup {[key |-> identifier, id |-> nb.id] :
            nb \in {x \in d.notebooks :
                      (HasColon(identifier) /\ x.id = identifier) \/ x.name = identifier}}

FreshIds == {"cs:3"}

\* Line 386: max(sessions, key=updated) over the sessions with the title.
LatestByTitle(d, title) ==
    LET found == {x \in DOMAIN d.sessions : d.sessions[x].title = title}
    IN {x \in found : \A y \in found : d.sessions[y].updated <= d.sessions[x].updated}

DefaultTitle == "Chat Session - <timestamp>"

\* The whole function. `fail` names the one external call that raises, if any.
\* The calls are followed up to the first session created (the store hands out
\* the ids of FreshIds).
Resolve(notebook_id, session_identifier, session_name, fail) ==
    /\ LoopFree
    /\ FreshIds \ DOMAIN db.sessions # {}
    /\ LET result(st, x) ==
               [status |-> st, session |-> x, notebook_id |-> notebook_id,
                identifier |-> session_identifier, name |-> session_name,
                fail |-> fail, before |-> DOMAIN db.sessions]
           byId == /\ session_identifier # NoIdent
                   /\ HasColon(session_identifier)
                   /\ fail # "get"
                   /\ session_identifier \in DOMAIN db.sessions
           byTitle == IF session_identifier # NoIdent /\ fail # "find"
                      THEN LatestByTitle(db, session_identifier) ELSE {}
           title == IF Strip(session_name) # "" THEN Strip(session_name) ELSE DefaultTitle
           cached == {nb \in db.cache : nb.key = notebook_id}
           notebooks == IF cached # {} THEN cached
                        ELSE IF fail = "notebook" THEN {}
                        ELSE NotebookFor(db, notebook_id)
       IN IF byId
          THEN rres' = result("ok", session_identifier) /\ UNCHANGED <<db, store>>
          ELSE IF byTitle # {}
          THEN /\ \E x \in byTitle : rres' = result("ok", x)
               /\ UNCHANGED <<db, store>>
          ELSE IF notebooks = {}
          THEN rres' = result("500", NoIdent) /\ UNCHANGED <<db, store>>
          ELSE IF fail = "save"
          THEN /\ rres' = result("500", NoIdent)
               /\ db' = [db EXCEPT !.cache = @ \cup notebooks]
               /\ store' = store
          ELSE \E new \in FreshIds \ DOMAIN db.sessions, nb \in notebooks :
                 /\ rres' = result("ok", new)
                 /\ db' = [db EXCEPT
                             !.sessions = @ @@ (new :> SessionRecord(title, now, notebook_id)),
                             !.relations = IF fail = "relate" THEN @
                                           ELSE @ \cup {<<new, nb.id>>},
                             !.cache = @ \cup notebooks]
                 /\ store' = store @@ (new :> [messages |-> <<>>])
    /\ UNCHANGED <<registry, handlers, now, nextUuid, spc, ssid, cs, ai, resp, sends,
                   saveFails, persist, estream, dres>>

\* ---------------------------------------------------------- delete_session
\* Lines 861-882. `awaitable` says whether DomainChatSession.get(session_id) can
\* be awaited: every other call of it in the module uses what it returns as
\* the session itself, and `await` on such a value raises TypeError, which the
\* except clause turns into HTTP 500 (as it does the 404 of a missing session).
NoDelete == [status |-> "none", sid |-> MissingSession, existed |-> FALSE]

DeleteSession(s, awaitable, bad) ==
    /\ LoopFree
    /\ IF awaitable /\ s \in DOMAIN store
       THEN /\ store' = Restrict(store, DOMAIN store \ {s})
            /\ db' = [db EXCEPT !.sessions = Restrict(@, DOMAIN @ \ {s})]
            /\ Broadcast(queues, s,
                         [event |-> "session_deleted", session_id |-> s,
                          timestamp |-> now], bad)
            /\ dres' = [status |-> "200", sid |-> s, existed |-> TRUE]
       ELSE /\ dres' = [status |-> "500", sid |-> s, existed |-> s \in DOMAIN store]
            /\ UNCHANGED <<store, db, queues, active_connections, bcast>>
    /\ UNCHANGED <<nextQueue, lastCount, handlers, now, nextUuid, spc, ssid, cs, ai, resp,
                   sends, saveFails, persist, estream, rres>>

\* ----------------------------------------------------------------- Init
Init ==
    /\ active_connections = <<>>
    /\ queues = [q \in QueueIds |-> <<>>]
    /\ nextQueue = 0
    /\ hpc = [q \in QueueIds |-> "none"]
    /\ hsid = [q \in QueueIds |-> "s1"]
    /\ last_activity = [q \in QueueIds |-> 0]
    /\ deadline = [q \in QueueIds |-> 0]
    /\ frames = [q \in QueueIds |-> <<>>]
    /\ emitted_at = [q \in QueueIds |-> 0]
    /\ disconnects = [q \in QueueIds |-> 0]
    /\ now = 0
    /\ nextUuid = 0
    /\ bcast = [s \in Sessions |-> 0]
    /\ lastCount = 0
    /\ store = [s \in Sessions |-> [messages |-> <<>>]]
    /\ spc = "idle"
    /\ ssid = "s1"
    /\ cs = <<>>
    /\ ai = NoMsg
    /\ resp = NoResp
    /\ sends = 0
    /\ saveFails = 0
    /\ persist = NoPersist
    /\ estream = NoStream
    /\ db = BaseDb
    /\ rres = NoResult
    /\ dres = NoDelete

\* The registry and the stream handlers, with the clock standing still.
Next ==
    \/ \E s \in Sessions : ChatEvents(s, QueueIds)
    \/ \E q \in QueueIds : HandlerAbandon(q)
    \/ \E q \in QueueIds : HandlerStart(q)
    \/ \E q \in QueueIds, gone \in BOOLEAN : HandlerPoll(q, gone)
    \/ \E q \in QueueIds : HandlerGet(q)
    \/ \E q \in QueueIds : HandlerResume(q)
    \/ \E q \in QueueIds : HandlerCancel(q)
    \/ \E s \in Sessions, bad \in BadSets : BroadcastCall(s, bad, MaxBroadcasts)
    \/ \E s \in Sessions : CountCall(s)

Spec == Init /\ [][Next]_vars

Texts == {"hi", " "}
Outcomes == {"text", "blocks", "blank", "raise"}
GenDurations == {1, HeartbeatIdle}

\* send_message with the streams of its session.
NextSend ==
    \/ ChatEvents("s1", {1})
    \/ \E q \in QueueIds : HandlerStart(q)
    \/ \E q \in QueueIds, gone \in BOOLEAN : HandlerPoll(q, gone)
    \/ \E q \in QueueIds : HandlerGet(q)
    \/ \E q \in QueueIds : HandlerResume(q)
    \/ \E mid \in ClientIds \cup {NoId}, text \in Texts, ok \in BOOLEAN :
            SendBegin("s1", mid, text, ok, MaxStreamedSends)
    \/ SendBroadcastUser({})
    \/ \E ok \in BOOLEAN : SendPlaceholder(ok)
    \/ \E o \in Outcomes : SendGenerate(o, 1, {})
    \/ \E ok \in BOOLEAN : SendFinalSave(ok)
    \/ SendBroadcastFinal({})
    \/ \E ok \in BOOLEAN : SendOuterError(ok)
    \/ SendBroadcastError({})

SpecSend == Init /\ [][NextSend]_vars

\* One stream and the clock: time passes while the loop is idle and while
\* send_message sits in chat_graph.invoke.
NextTime ==
    \/ ChatEvents("s1", {1})
    \/ \E q \in QueueIds : HandlerStart(q)
    \/ \E q \in QueueIds, gone \in BOOLEAN : HandlerPoll(q, gone)
    \/ \E q \in QueueIds : HandlerGet(q)
    \/ \E q \in QueueIds : HandlerTimeout(q)
    \/ \E q \in QueueIds : HandlerResume(q)
    \/ \E q \in QueueIds : HandlerCancel(q)
    \/ \E d \in {TickStep, HeartbeatIdle} : Tick(d)
    \/ \E ok \in BOOLEAN : SendBegin("s1", NoId, "hi", ok, MaxStreamedSends)
    \/ SendBroadcastUser({})
    \/ \E ok \in BOOLEAN : SendPlaceholder(ok)
    \/ \E o \in Outcomes, d \in GenDurations : SendGenerate(o, d, {})
    \/ \E ok \in BOOLEAN : SendFinalSave(ok)
    \/ SendBroadcastFinal({})
    \/ \E ok \in BOOLEAN : SendOuterError(ok)
    \/ SendBroadcastError({})

SpecTime == Init /\ [][NextTime]_vars

\* Session "s1" flooded with events, the streams connected before the flood.
NextFull ==
    \/ \E s \in Sessions : bcast["s1"] <= MaxOverflow /\ ChatEvents(s, QueueIds)
    \/ \E q \in QueueIds : HandlerStart(q)
    \/ \E q \in QueueIds : HandlerPoll(q, FALSE)
    \/ \E q \in QueueIds : HandlerGet(q)
    \/ \E q \in QueueIds : HandlerResume(q)
    \/ BroadcastCall("s1", {}, QueueMaxsize + MaxOverflow)

SpecFull == Init /\ [][NextFull]_vars

\* send_message on the Session Store, no stream connected.
NextStore ==
    \/ \E s \in Sessions, mid \in ClientIds \cup {NoId}, text \in Texts, ok \in BOOLEAN :
            SendBegin(s, mid, text, ok, MaxSends)
    \/ SendBroadcastUser({})
    \/ \E ok \in BOOLEAN : SendPlaceholder(ok)
    \/ \E o \in Outcomes : SendGenerate(o, 1, {})
    \/ \E ok \in BOOLEAN : SendFinalSave(ok)
    \/ SendBroadcastFinal({})
    \/ \E ok \in BOOLEAN : SendOuterError(ok)
    \/ SendBroadcastError({})

SpecStore == Init /\ [][NextStore]_vars

\* A message stored by earlier requests.
Old(i) ==
    Msg([src |-> "old", n |-> i], IF i % 2 = 1 THEN "user" ELSE "assistant",
        "text", 0, "<unset>")

\* The Session Store holds a session "s1" that is one message short of
\* MaxChatMessages.
InitCap ==
    /\ active_connections = <<>>
    /\ queues = [q \in QueueIds |-> <<>>]
    /\ nextQueue = 0
    /\ hpc = [q \in QueueIds |-> "none"]
    /\ hsid = [q \in QueueIds |-> "s1"]
    /\ last_activity = [q \in QueueIds |-> 0]
    /\ deadline = [q \in QueueIds |-> 0]
    /\ frames = [q \in QueueIds |-> <<>>]
    /\ emitted_at = [q \in QueueIds |-> 0]
    /\ disconnects = [q \in QueueIds |-> 0]
    /\ now = 0
    /\ nextUuid = 0
    /\ bcast = [s \in Sessions |-> 0]
    /\ lastCount = 0
    /\ store = [s \in Sessions |->
                  [messages |-> IF s = "s1"
                                THEN [i \in 1..(MaxChatMessages - 1) |-> Old(i)]
                                ELSE <<>>]]
    /\ spc = "idle"
    /\ ssid = "s1"
    /\ cs = <<>>
    /\ ai = NoMsg
    /\ resp = NoResp
    /\ sends = 0
    /\ saveFails = 0
    /\ persist = NoPersist
    /\ estream = NoStream
    /\ db = BaseDb
    /\ rres = NoResult
    /\ dres = NoDelete

SpecCap == InitCap /\ [][NextStore]_vars

\* _save_session_messages called on its own.
SampleMessages ==
    {Msg(Uuid(1), "user", "hi", 0, "<unset>"),
     Msg(Uuid(2), "assistant", "", 0, "<unset>"),
     Msg(Uuid(2), "assistant", "reply", 0, "<unset>")}

PersistInputs ==
    {<<>>} \cup {<<a>> : a \in SampleMessages}
           \cup {<<a, b>> : a \in SampleMessages, b \in SampleMessages}

StoreOutcomes == {"get_raises", "save_raises", "ok"}

NextPersist ==
    \/ \E s \in Sessions \cup {MissingSession}, messages \in PersistInputs :
            PersistCall(s, messages)
    \/ \E o \in StoreOutcomes : PersistAttempt(o)
    \/ PersistSleep

SpecPersist == Init /\ [][NextPersist]_vars

\* The stream endpoint with sessions the store has and one it does not have.
NextStream ==
    \/ ChatEvents("s1", {1})
    \/ \E q \in QueueIds : HandlerStart(q)
    \/ \E q \in QueueIds, gone \in BOOLEAN : HandlerPoll(q, gone)
    \/ \E q \in QueueIds : HandlerGet(q)
    \/ \E q \in QueueIds : HandlerResume(q)
    \/ \E s \in Sessions : BroadcastCall(s, {}, MaxBroadcasts)
    \/ \E s \in Sessions \cup {MissingSession}, raised \in BOOLEAN :
            ChatEventsInvalid(s, raised)
    \/ ErrorStreamNext
    \/ \E s \in Sessions \cup {MissingSession}, accept_header \in AcceptHeaders :
            ChatEventsRejected(s, accept_header)

SpecStream == Init /\ [][NextStream]_vars

\* get_or_create_chat_session on the stores it may find.
StoredIds == {"cs:1", "cs:2"}
Titles == {"Test", "Old"}
Updateds == {1, 2}
Catalogs ==
    UNION {[D -> {SessionRecord(t, u, "notebook:1") : t \in Titles, u \in Updateds}] :
             D \in SUBSET StoredIds}

InitResolve ==
    /\ active_connections = <<>>
    /\ queues = [q \in QueueIds |-> <<>>]
    /\ nextQueue = 0
    /\ hpc = [q \in QueueIds |-> "none"]
    /\ hsid = [q \in QueueIds |-> "s1"]
    /\ last_activity = [q \in QueueIds |-> 0]
    /\ deadline = [q \in QueueIds |-> 0]
    /\ frames = [q \in QueueIds |-> <<>>]
    /\ emitted_at = [q \in QueueIds |-> 0]
    /\ disconnects = [q \in QueueIds |-> 0]
    /\ now = 0
    /\ nextUuid = 0
    /\ bcast = [s \in Sessions |-> 0]
    /\ lastCount = 0
    /\ \E sessions \in Catalogs, notebooks \in SUBSET {TheNotebook} :
          /\ db = [sessions  |-> sessions,
                   notebooks |-> notebooks,
                   relations |-> {<<x, nb.id>> : x \in DOMAIN sessions, nb \in notebooks},
                   cache     |-> {}]
          /\ store = [x \in DOMAIN sessions |-> [messages |-> <<>>]]
    /\ spc = "idle"
    /\ ssid = "s1"
    /\ cs = <<>>
    /\ ai = NoMsg
    /\ resp = NoResp
    /\ sends = 0
    /\ saveFails = 0
    /\ persist = NoPersist
    /\ estream = NoStream
    /\ rres = NoResult
    /\ dres = NoDelete

NotebookIdentifiers == {"notebook:1", "nb", "notebook:9"}
SessionIdentifiers == {NoIdent, "cs:1", "cs:9", "Test", "Other"}
SessionNames == {"", " ", "Named"}
Fails == {"none", "get", "find", "notebook", "save", "relate"}

NextResolve ==
    \E notebook_id \in NotebookIdentifiers, session_identifier \in SessionIdentifiers,
       session_name \in SessionNames, fail \in Fails :
          Resolve(notebook_id, session_identifier, session_name, fail)

SpecResolve == InitResolve /\ [][NextResolve]_vars

\* Two notebooks with one session each, both titled "Test"; send_message on
\* the session that get_or_create_chat_session returned.
OwnedIds == {"cs:1", "cs:2"}
Owner(x) == IF x = "cs:1" THEN TheNotebook.id ELSE OtherNotebook.id

InitOwner ==
    /\ active_connections = <<>>
    /\ queues = [q \in QueueIds |-> <<>>]
    /\ nextQueue = 0
    /\ hpc = [q \in QueueIds |-> "none"]
    /\ hsid = [q \in QueueIds |-> "s1"]
    /\ last_activity = [q \in QueueIds |-> 0]
    /\ deadline = [q \in QueueIds |-> 0]
    /\ frames = [q \in QueueIds |-> <<>>]
    /\ emitted_at = [q \in QueueIds |-> 0]
    /\ disconnects = [q \in QueueIds |-> 0]
    /\ now = 0
    /\ nextUuid = 0
    /\ bcast = [x \in OwnedIds \cup FreshIds |-> 0]
    /\ lastCount = 0
    /\ db = [sessions  |-> [x \in OwnedIds |-> SessionRecord("Test", 1, Owner(x))],
             notebooks |-> {TheNotebook, OtherNotebook},
             relations |-> {<<x, Owner(x)>> : x \in OwnedIds},
             cache     |-> {}]
    /\ store = [x \in OwnedIds |-> [messages |-> <<>>]]
    /\ spc = "idle"
    /\ ssid = "cs:1"
    /\ cs = <<>>
    /\ ai = NoMsg
    /\ resp = NoResp
    /\ sends = 0
    /\ saveFails = 0
    /\ persist = NoPersist
    /\ estream = NoStream
    /\ rres = NoResult
    /\ dres = NoDelete

NextOwner ==
    \/ \E notebook_id \in {TheNotebook.id, OtherNotebook.id, OtherNotebook.name},
          session_identifier \in {NoIdent, "cs:1", "cs:2", "Test"} :
             Resolve(notebook_id, session_identifier, "", "none")
    \/ \E ok \in BOOLEAN :
          /\ rres.status = "ok"
          /\ SendBegin(rres.session, NoId, "hi", ok, MaxSends)
    \/ SendBroadcastUser({})
    \/ \E ok \in BOOLEAN : SendPlaceholder(ok)
    \/ \E o \in Outcomes : SendGenerate(o, 1, {})
    \/ \E ok \in BOOLEAN : SendFinalSave(ok)
    \/ SendBroadcastFinal({})
    \/ \E ok \in BOOLEAN : SendOuterError(ok)
    \/ SendBroadcastError({})

SpecOwner == InitOwner /\ [][NextOwner]_vars

\* Two streams of session "s1", connected before its first event, with
\* send_message.
NextTwin ==
    \/ bcast["s1"] = 0 /\ ChatEvents("s1", QueueIds)
    \/ \E q \in QueueIds : HandlerStart(q)
    \/ \E q \in QueueIds : HandlerPoll(q, FALSE)
    \/ \E q \in QueueIds : HandlerGet(q)
    \/ \E q \in QueueIds : HandlerResume(q)
    \/ \E ok \in BOOLEAN : SendBegin("s1", NoId, "hi", ok, MaxStreamedSends)
    \/ SendBroadcastUser({})
    \/ \E ok \in BOOLEAN : SendPlaceholder(ok)
    \/ \E o \in Outcomes : SendGenerate(o, 1, {})
    \/ \E ok \in BOOLEAN : SendFinalSave(ok)
    \/ SendBroadcastFinal({})
    \/ \E ok \in BOOLEAN : SendOuterError(ok)
    \/ SendBroadcastError({})

SpecTwin == Init /\ [][NextTwin]_vars

\* The same, with delete_session for sessions the store has or does not have.
NextDelete ==
    \/ NextTwin
    \/ \E s \in Sessions \cup {MissingSession}, awaitable \in BOOLEAN :
            DeleteSession(s, awaitable, {})

SpecDelete == Init /\ [][NextDelete]_vars

\* ------------------------------------------------------------------ claims
Registered(ac, s) == IF s \in DOMAIN ac THEN Range(ac[s]) ELSE {}

IsMessage(f) == f.type = "message"

\* The ids of the message frames a stream has emitted, then of the events still
\* in its queue.
Received(q) ==
    LET fs == SelectSeq(frames[q], IsMessage)
    IN [i \in 1..Len(fs) |-> fs[i].id] \o [i \in 1..Len(queues[q]) |-> queues[q][i].id]

\* C1 as stated: every subscriber registered under S when broadcast(S, E) is
\* called has E appended to its queue.
C1_EverySubscriberReceives ==
    [][\A s \in Sessions : bcast'[s] # bcast[s] =>
          \A q \in Registered(active_connections, s) :
             queues'[q] = Append(queues[q], ApiMessage(s, bcast'[s], now))]_vars

\* C1, the delivery of one call: broadcast(S, E) appends E to the queue of every
\* subscriber registered under S that holds fewer than QueueMaxsize events and
\* is not removed as unusable, and leaves every other queue as it was.
C1_Delivery ==
    \A s \in Sessions : bcast'[s] # bcast[s] =>
       \A q \in QueueIds :
          queues'[q] =
             IF /\ q \in Registered(active_connections, s)
                /\ q \in Registered(active_connections', s)
                /\ Len(queues[q]) < QueueMaxsize
             THEN Append(queues[q], ApiMessage(s, bcast'[s], now))
             ELSE queues[q]

\* C1, the order: what a stream has emitted and what waits in its queue are
\* events of its own session, in the order of the broadcast calls.
C1_Order ==
    \A q \in QueueIds :
       LET r == Received(q)
       IN /\ \A i \in 1..Len(r) : r[i].src = hsid[q]
          /\ \A i \in 1..(Len(r) - 1) : r[i].n < r[i + 1].n

\* C1 (amended): broadcast(S, E) delivers E to every subscriber registered under
\* S whose queue has room and is usable, to no subscriber of another session,
\* and every subscriber receives, and its stream emits, the events of S in the
\* order of the broadcast calls.
C1_BroadcastFanOut == [][C1_Delivery]_vars /\ []C1_Order

\* C1 witness: a stream of "s1" has emitted two frames of two broadcasts and has
\* a third event queued, while a subscriber of "s2" has received nothing.
C1_Witness ==
    \E q, r \in QueueIds :
       /\ hsid[q] = "s1" /\ Len(frames[q]) >= 2 /\ queues[q] # <<>>
       /\ hsid[r] = "s2" /\ r \in Registered(active_connections, "s2")
       /\ queues[r] = <<>> /\ frames[r] = <<>>

\* C2: a session id is a key of active_connections iff it has at least one
\* registered subscriber: no key maps to an empty list.
C2_NoEmptyEntry ==
    \A s \in DOMAIN active_connections : active_connections[s] # <<>>

\* C3, one call: a queue that holds QueueMaxsize events is left as it is, and
\* every other usable queue of the session gets the event at its end.
C3_Drop ==
    \A s \in Sessions :
       (/\ bcast'[s] # bcast[s]
        /\ \E q \in Registered(active_connections, s) : Len(queues[q]) = QueueMaxsize)
       => /\ bcast'[s] = bcast[s] + 1
          /\ \A q \in Registered(active_connections, s) :
               IF Len(queues[q]) = QueueMaxsize
               THEN queues'[q] = queues[q]
               ELSE q \in Registered(active_connections', s) =>
                      /\ Len(queues'[q]) = Len(queues[q]) + 1
                      /\ queues'[q][Len(queues'[q])] = ApiMessage(s, bcast'[s], now)

\* C3: a broadcast to a full queue drops the event for that subscriber only,
\* no queue ever holds more than QueueMaxsize events, the other subscribers of
\* the session with room get the event, and the call goes through.
C3_FullQueueDrops ==
    /\ [][C3_Drop]_vars
    /\ [](\A q \in QueueIds : Len(queues[q]) <= QueueMaxsize)
    /\ []((LoopFree /\ bcast["s1"] < QueueMaxsize + MaxOverflow)
             => ENABLED BroadcastCall("s1", {}, QueueMaxsize + MaxOverflow))

\* C3 witness: one subscriber of "s1" holds QueueMaxsize events and missed the
\* last broadcast, which another subscriber of "s1" received.
C3_Witness ==
    \E q, r \in Registered(active_connections, "s1") :
       /\ Len(queues[q]) = QueueMaxsize
       /\ queues[q][QueueMaxsize].id.n < bcast["s1"]
       /\ queues[r] # <<>>
       /\ queues[r][Len(queues[r])].id.n = bcast["s1"]

\* C4: a stream that has ended has called disconnect exactly once and its
\* queue is no longer registered.
C4_EndedStreamDisconnected ==
    \A q \in QueueIds :
       hpc[q] \in {"closed", "abandoned"} =>
          /\ disconnects[q] = 1
          /\ \A s \in Sessions : q \notin Registered(active_connections, s)

\* C5: the stored message list of a session never has more than
\* MaxChatMessages entries.
C5_StoredAtMostCap ==
    \A s \in Sessions : Len(store[s].messages) <= MaxChatMessages

\* C6: a frame emitted when HeartbeatIdle seconds or more have passed since the
\* stream's last frame is a heartbeat frame, never a message frame.
C6_HeartbeatBeforeMessage ==
    [][\A q \in QueueIds :
          (/\ Len(frames[q]) >= 1
           /\ Len(frames'[q]) = Len(frames[q]) + 1
           /\ now - emitted_at[q] >= HeartbeatIdle)
          => frames'[q][Len(frames'[q])] = Heartbeat]_vars

\* C7: the frame a stream emits for the final assistant message that
\* send_message broadcast (after success or after an engine failure) carries the
\* id, role, content and timestamp of that message as it is stored.
C7_FinalFrameCarriesStored ==
    [][\A q \in QueueIds :
          (/\ hpc[q] = "wait" /\ queues[q] # <<>>
           /\ "event" \in DOMAIN Head(queues[q])
           /\ Head(queues[q]).event = "message_complete"
           /\ Len(frames'[q]) = Len(frames[q]) + 1)
          => LET m == Head(queues[q]).message
                 f == frames'[q][Len(frames'[q])]
             IN /\ \E i \in DOMAIN store[hsid[q]].messages :
                       store[hsid[q]].messages[i] = m
                /\ f.id = m.id /\ f.role = m.role
                /\ f.content = m.content /\ f.timestamp = m.timestamp]_vars

\* C8: an assistant message whose content was replaced by the error string
\* after an engine failure has metadata.error set to true, in the store and in
\* the response.
C8_EngineFailureFlagged ==
    /\ \A s \in Sessions : \A i \in DOMAIN store[s].messages :
          store[s].messages[i].content = "error_msg"
             => store[s].messages[i].error = "True"
    /\ resp.message.content = "error_msg" => resp.message.error = "True"

\* C9: once send_message has finished, no stored message has empty content.
C9_NoEmptyContentAtRest ==
    spc = "idle" =>
       \A s \in Sessions : \A i \in DOMAIN store[s].messages :
          store[s].messages[i].content # ""

\* C10: no two messages of a stored session have the same id.
C10_UniqueIds ==
    \A s \in Sessions : \A i, j \in DOMAIN store[s].messages :
       i # j => store[s].messages[i].id # store[s].messages[j].id

\* What _save_session_messages did so far, by kind of step.
Fetches(tr) == {i \in 1..Len(tr) : tr[i].op \in {"get", "get_raised"}}
Writes(tr) == {i \in 1..Len(tr) : tr[i].op \in {"save", "save_raised"}}
Failures(tr) == {i \in 1..Len(tr) : tr[i].op \in {"get_raised", "save_raised"}}
Sleeps(tr) == {i \in 1..Len(tr) : tr[i].op = "sleep"}

C12_SaveRetried == saveFails # 0 => saveFails >= MaxRetries

\* The role and content of the messages of a list, in order.
Essence(messages) ==
    [i \in 1..Len(messages) |->
        [role |-> messages[i].role, content |-> messages[i].content]]

\* C13: when the write fails on attempts 1 and 2 and succeeds on attempt 3, the
\* stored list has the messages given to the call: the same roles and
\* contents in the same order, none added and none dropped.
C13_ThirdAttemptStoresList ==
    (/\ persist.pc = "done" /\ persist.result = "True"
     /\ Cardinality(Failures(persist.trace)) = 2)
    => Essence(store[persist.sid].messages) = Essence(persist.messages)

\* C14: two send_message operations on one session can be in progress at the
\* same time: while one waits for the engine, the next one can take its first
\* step (load the session, append its user message, save).
C14_SendsOverlap ==
    (spc = "generating" /\ sends < MaxSends)
       => ENABLED SendBegin(ssid, NoId, "hi", TRUE, MaxSends)

\* C15: while send_message waits for the engine, a stream handler whose queue
\* holds an event can take its step and forward it.
C15_EngineCallSuspends ==
    \A q \in QueueIds :
       (/\ spc = "generating" /\ hpc[q] = "wait"
        /\ queues[q] # <<>> /\ Len(frames[q]) < MaxFrames)
       => ENABLED HandlerGet(q)

\* C16, connect: the call creates one new queue, empty, and lists it under its
\* session only; nothing else in the registry changes.
C16_Connect ==
    nextQueue' # nextQueue =>
       LET q == nextQueue' IN
       /\ q = nextQueue + 1
       /\ queues[q] = <<>> /\ queues' = queues /\ frames'[q] = <<>>
       /\ \E s \in Sessions :
             /\ q \notin Registered(active_connections, s)
             /\ GetConnectionCount(active_connections', s)
                   = GetConnectionCount(active_connections, s) + 1
             /\ Registered(active_connections', s)
                   = Registered(active_connections, s) \cup {q}
             /\ \A t \in Sessions \ {s} :
                   /\ q \notin Registered(active_connections', t)
                   /\ Registered(active_connections', t) = Registered(active_connections, t)

\* C16, no replay: an event enters a queue only in the broadcast call that
\* carries it, and only a queue that was registered under the session when the
\* call was made.
C16_OnlyCurrentBroadcast ==
    \A q \in QueueIds :
       Len(queues'[q]) > Len(queues[q]) =>
          /\ q <= nextQueue
          /\ \E s \in Sessions :
                /\ bcast'[s] = bcast[s] + 1
                /\ q \in Registered(active_connections, s)
                /\ queues'[q] = Append(queues[q], ApiMessage(s, bcast'[s], now))

\* C16: connect always succeeds and returns a new, empty queue registered under
\* its session only, and a queue never receives an event whose broadcast call
\* returned before the queue was connected.
C16_NoReplay ==
    /\ [][C16_Connect /\ C16_OnlyCurrentBroadcast]_vars
    /\ [](\A q \in QueueIds : q > nextQueue => queues[q] = <<>> /\ frames[q] = <<>>)
    /\ [](nextQueue + 1 \in QueueIds
            => \A s \in Sessions : ENABLED ChatEvents(s, QueueIds))

\* C16 witness: two queues of one session, the second connected after the
\* first broadcast: the first received events 1 and 2, the second event 2 only.
C16_Witness ==
    \E s \in Sessions :
       /\ bcast[s] = 2
       /\ {1, 2} \subseteq Registered(active_connections, s)
       /\ Len(Received(1)) = 2 /\ Received(1)[1].n = 1
       /\ Len(Received(2)) = 1 /\ Received(2)[1].n = 2

\* C17: a disconnect call for a queue that is not registered under its session
\* leaves the registry as it is.
C17_DisconnectUnregisteredNoChange ==
    [][\A q \in QueueIds :
          (/\ disconnects'[q] = disconnects[q] + 1
           /\ q \notin Registered(active_connections, hsid[q]))
          => active_connections' = active_connections]_vars

\* C18, one step of the error stream: the registry and the streams stay as
\* they are.
C18_RegistryUntouched ==
    estream' # estream =>
       UNCHANGED <<active_connections, queues, nextQueue, hpc, hsid, frames, disconnects>>

\* C18: a stream request for a session the store does not have is answered by
\* one error frame and the end of the stream; it emits no heartbeat and no
\* message frame, is never connected and leaves the registry unchanged.
C18_MissingSessionOneErrorFrame ==
    /\ [][C18_RegistryUntouched]_vars
    /\ [](/\ Len(estream.frames) <= 1
          /\ \A i \in 1..Len(estream.frames) : estream.frames[i].type = "error"
          /\ estream.pc = "closed" => Len(estream.frames) = 1
          /\ estream.gen = "error_generator" => estream.sid \notin DOMAIN store
          /\ \A s \in DOMAIN active_connections : s \in DOMAIN store
          /\ \A q \in QueueIds : hpc[q] # "none" => hsid[q] \in DOMAIN store)

\* C18 witness: the request for the missing session has got its one error
\* frame and its stream is closed, while a stream of "s1" is registered.
C18_Witness ==
    /\ estream.pc = "closed" /\ estream.sid = MissingSession
    /\ estream.gen = "error_generator"
    /\ estream.frames = <<[type |-> "error", error |-> "Session not found"]>>
    /\ Registered(active_connections, "s1") = {1}

\* C19: a call for a notebook the Notebook Store does not have, which does not
\* resolve to an existing session, fails with 404 Not Found and persists no
\* session.
C19_MissingNotebookNotFound ==
    (/\ rres.status # "none"
     /\ rres.session \notin rres.before
     /\ NotebookFor(db, rres.notebook_id) = {})
    => /\ rres.status = "404"
       /\ DOMAIN db.sessions = rres.before

\* The identifier of the last call names a session that existed when the call
\* was made: by id when it has a colon, or by title.
NamesExisting ==
    \/ HasColon(rres.identifier) /\ rres.identifier \in rres.before
    \/ \E x \in rres.before : db.sessions[x].title = rres.identifier

\* C20: a call whose session_identifier names an existing session creates no
\* session, and the session it returns is an existing one: the session with
\* that id, or else one with that title and the latest updated timestamp.
C20_ExistingNeverCreates ==
    (rres.status # "none" /\ rres.identifier # NoIdent /\ NamesExisting)
    => /\ DOMAIN db.sessions = rres.before
       /\ rres.status = "ok" =>
             /\ rres.session \in rres.before
             /\ IF HasColon(rres.identifier) /\ rres.identifier \in rres.before
                THEN rres.session = rres.identifier
                ELSE rres.session \in LatestByTitle(db, rres.identifier)

\* C21: a call without session_identifier, or with one that names no session,
\* which returns a session has created exactly one session: its title is
\* session_name when that is not blank and the default title otherwise, its
\* metadata names notebook_id, and a stored relation ties it to the notebook.
C21_CreatesTitledAndRelated ==
    (/\ rres.status = "ok"
     /\ rres.identifier = NoIdent \/ ~NamesExisting)
    => /\ rres.session \notin rres.before
       /\ DOMAIN db.sessions = rres.before \cup {rres.session}
       /\ db.sessions[rres.session].title =
             IF Strip(rres.name) # "" THEN rres.name ELSE DefaultTitle
       /\ db.sessions[rres.session].notebook_id = rres.notebook_id
       /\ \E nb \in NotebookFor(db, rres.notebook_id) :
             <<rres.session, nb.id>> \in db.relations

\* The stored list of the session of the request ends with the user message
\* and the empty assistant placeholder of the request, in this order.
PlaceholderStored ==
    LET l == store[ssid].messages
        n == Len(l)
    IN /\ n >= 2
       /\ l[n] = ai /\ ai.role = "assistant" /\ ai.content = ""
       /\ l[n - 1].role = "user" /\ l[n - 1].content # ""
       /\ l[n - 1] = cs[Len(cs) - 1]

\* Every message id of a stored session is still in that session after the step.
IdsKept ==
    \A s \in Sessions : \A i \in DOMAIN store[s].messages :
       \E j \in DOMAIN store'[s].messages :
          store'[s].messages[j].id = store[s].messages[i].id

\* C22: the engine is invoked only when the store holds the user message and
\* the empty assistant placeholder of the request; the invocation, whatever
\* its outcome, and the steps after it leave both recorded in the store.
C22_PlaceholderBeforeEngine ==
    /\ [](spc = "generating" => PlaceholderStored)
    /\ [][(spc = "generating" => store' = store) /\ IdsKept]_vars
    /\ []((\E o \in Outcomes : ENABLED SendGenerate(o, 1, {})) => spc = "generating")

\* C22 witness: the engine has raised in the second request on a session, and
\* the store holds the user message and the empty placeholder of that request
\* after the two messages of the first.
C22_Witness ==
    /\ spc = "finalize" /\ ai.error = "str(e)" /\ sends = 2
    /\ Len(store[ssid].messages) = 4
    /\ store[ssid].messages[4].id = ai.id /\ store[ssid].messages[4].content = ""
    /\ store[ssid].messages[3].role = "user"

\* C23: two streams of one session that were connected before its first
\* event emit the same frames for the events both have forwarded: the same id,
\* role, content and timestamp.
C23_IdenticalFrames ==
    \A q, r \in QueueIds :
       (hsid[q] = hsid[r] /\ hpc[q] # "none" /\ hpc[r] # "none")
       => \A i \in 1..Min(Len(frames[q]), Len(frames[r])) :
             frames[q][i] = frames[r][i]

\* C24, the step that removes a session: it is a delete_session call for that
\* session, answered with 200, and its one session_deleted event is put on the
\* queue of every subscriber of the session that has room.
C24_RemovalIsDelete ==
    \A s \in DOMAIN store :
       s \notin DOMAIN store' =>
          /\ dres' = [status |-> "200", sid |-> s, existed |-> TRUE]
          /\ bcast'[s] = bcast[s] + 1
          /\ \A q \in Registered(active_connections, s) :
                Len(queues[q]) < QueueMaxsize =>
                   queues'[q] = Append(queues[q],
                                       [event |-> "session_deleted", session_id |-> s,
                                        timestamp |-> now])

\* C24: a delete_session call for a session the store has removes it from the
\* store and broadcasts one termination event to the subscribers of the
\* session; no other operation removes a session from the store.
C24_DeleteRemovesAndNotifies ==
    /\ []((dres.status # "none" /\ dres.existed)
            => (dres.status = "200" /\ dres.sid \notin DOMAIN store))
    /\ [][C24_RemovalIsDelete]_vars

\* C25, the step: a request answered with 406 leaves the registry, the queues
\* and the streams as they are.
C25_RejectionTouchesNothing ==
    (estream' # estream /\ estream'.pc = "rejected") =>
       /\ estream'.gen = "HTTP_406" /\ estream'.frames = <<>>
       /\ UNCHANGED <<active_connections, queues, nextQueue, hpc, hsid, frames, disconnects>>

\* C25: a stream request whose Accept header does not name text/event-stream
\* is answered with 406 whatever its session, before connect: it registers no
\* subscriber and leaves the registry unchanged, and no subscriber is ever
\* registered without a stream of its own.
C25_NotAcceptableBeforeConnect ==
    /\ [][C25_RejectionTouchesNothing]_vars
    /\ [](estream.pc # "created" =>
             \A s \in Sessions \cup {MissingSession} :
                ENABLED ChatEventsRejected(s, "application/json"))
    /\ [](\A s \in DOMAIN active_connections :
             \A q \in Range(active_connections[s]) : q <= nextQueue /\ hsid[q] = s)

\* C25 witness: a request for "s1" was answered with 406 while the one stream
\* of "s1" is registered, and it is still the only subscriber.
C25_Witness ==
    /\ estream.pc = "rejected" /\ estream.sid = "s1"
    /\ nextQueue = 1 /\ Registered(active_connections, "s1") = {1}
    /\ hpc[1] = "wait"

\* The message an event shows: the event itself, or what it carries under
\* "message".
Shown(e) == IF "message" \in DOMAIN e THEN e.message ELSE e

\* C26: when send_message puts an event on the queue of a subscriber, the
\* stored list of the session holds a message with the id and the content the
\* event shows.
C26_BroadcastAfterPersist ==
    [][\A q \in QueueIds :
          (spc # "idle" /\ Len(queues'[q]) = Len(queues[q]) + 1)
          => LET m == Shown(queues'[q][Len(queues'[q])])
             IN \E i \in DOMAIN store[ssid].messages :
                   /\ store[ssid].messages[i].id = m.id
                   /\ store[ssid].messages[i].content = m.content]_vars

\* C27, step by step: the first save adds the user message at the end of the
\* stored list, the second adds the empty placeholder, the engine call changes
\* nothing, and the final save after a successful generation puts the
\* generated content on the last entry, which keeps the placeholder's id.
C27_Steps ==
    LET old == store[ssid'].messages
        new == store'[ssid'].messages
    IN /\ (spc = "idle" /\ spc' = "user_saved")
            => /\ new = Append(old, cs'[Len(cs')])
               /\ new[Len(new)].role = "user"
               /\ \A s \in Sessions \ {ssid'} : store'[s] = store[s]
       /\ (spc = "user_sent" /\ spc' = "generating")
            => /\ new = Append(old, ai')
               /\ ai'.role = "assistant" /\ ai'.content = ""
               /\ \A i \in DOMAIN old : old[i].id # ai'.id
       /\ spc \in {"user_saved", "generating", "final_saved"} => store' = store
       /\ (spc = "finalize" /\ spc' = "final_saved" /\ ai.error = "<unset>")
            => /\ Len(new) = Len(old)
               /\ \A i \in 1..(Len(old) - 1) : new[i] = old[i]
               /\ new[Len(new)].id = old[Len(old)].id
               /\ new[Len(new)].id = ai.id
               /\ new[Len(new)].role = "assistant"
               /\ new[Len(new)].content = ai.content
               /\ ai.content \in {"reply", "joined"}

LiveStreams(s) ==
    {q \in QueueIds : hsid[q] = s /\ hpc[q] \in {"created", "poll", "wait", "yield"}}

\* C28: every registered queue belongs to a stream whose connection is still
\* there, so the subscriber count of a session never exceeds the number of its
\* live streams.
C28_NoSubscriberWithoutStream ==
    \A s \in Sessions :
       /\ Registered(active_connections, s) \subseteq LiveStreams(s)
       /\ GetConnectionCount(active_connections, s) <= Cardinality(LiveStreams(s))

\* C29: the list given to the engine ends with the user message of the request
\* and does not hold the empty assistant placeholder of the request.
C29_EngineInputEndsWithUser ==
    spc = "generating" =>
       /\ ChatInput # <<>>
       /\ ChatInput[Len(ChatInput)].role = "user"
       /\ \A i \in DOMAIN ChatInput : ChatInput[i].id # ai.id

\* The session belongs to the notebook the identifier names: its notebook
\* reference is the identifier, or the id of the notebook found for it.
BelongsTo(x, notebook_id) ==
    \/ db.sessions[x].notebook_id = notebook_id
    \/ \E nb \in NotebookFor(db, notebook_id) : db.sessions[x].notebook_id = nb.id

\* C30: the session that get_or_create_chat_session returns for notebook N
\* belongs to N, and send_message writes to no session of another notebook.
C30_SessionOfNotebookOnly ==
    /\ [](rres.status = "ok" => BelongsTo(rres.session, rres.notebook_id))
    /\ [][\A x \in DOMAIN store :
             (x \in DOMAIN store' /\ store'[x] # store[x])
                => BelongsTo(x, rres.notebook_id)]_vars

====
